---------------------------- MODULE Spec2Model ----------------------------
(***************************************************************************)
(* Meeting transcript analyzer: the Gemini REST service (api.py), the      *)
(* Azure OpenAI REST service (azure_api.py) and the MCP prompt server      *)
(* (server.py).  Requests are handled on the event loop of the process     *)
(* that serves them; an analyze request validates the transcript, renders  *)
(* the prompt, obtains a client, calls the provider, parses the reply and  *)
(* builds the MeetingAnalysis.                                             *)
(***************************************************************************)
EXTENDS Integers, Sequences, FiniteSets, TLC

VARIABLES
    env,      \* the process environment: variable name -> JNull or JStr(value)
    req,      \* req[r]: the request r carries
    backend,  \* backend[r]: what the provider does when r's call reaches it
    pc,       \* pc[r]: "none", "received", "waiting" (in the provider call), "done"
    loop,     \* loop[svc]: the request whose handler holds the event loop of svc, or 0
    lookups,  \* lookups[r]: credential lookups made for r
    calls,    \* calls[r]: provider invocations made for r
    sent,     \* sent[r]: the instruction sent to the provider for r
    out       \* out[r]: the outcome returned for r

vars == <<env, req, backend, pc, loop, lookups, calls, sent, out>>

(***************************************************************************)
(* Bounds of the model.                                                    *)
(***************************************************************************)
MaxReq == 2
MaxTranscriptLen == 2

Reqs == 1..MaxReq

(***************************************************************************)
(* JSON values, as json.loads produces them: None, bool, int, str, list    *)
(* and dict (a function from its keys to their values).                    *)
(***************************************************************************)
JNull == [t |-> "null"]
JBool(b) == [t |-> "bool", b |-> b]
JInt(n) == [t |-> "int", n |-> n]
JStr(s) == [t |-> "str", s |-> s]
JList(e) == [t |-> "list", e |-> e]
JObj(d) == [t |-> "dict", d |-> d]

EmptyDict == [k \in {} |-> JNull]

\* d[k] = v of a Python dict: a repeated key keeps the last value.
DictPut(d, k, v) == [x \in (DOMAIN d) \cup {k} |-> IF x = k THEN v ELSE d[x]]

\* dict.get(key, default)
DictGet(d, k, default) == IF k \in DOMAIN d THEN d[k] ELSE default

(***************************************************************************)
(* A reply text is a sequence of lexemes: punctuation, string literals,    *)
(* numbers, the literals true/false/null, and words of prose.              *)
(***************************************************************************)
P(c) == [lex |-> c]
S(s) == [lex |-> "str", s |-> s]
N(n) == [lex |-> "num", n |-> n]
W(w) == [lex |-> "text", w |-> w]

Fail(i) == [ok |-> FALSE, val |-> JNull, next |-> i]
Ok(v, i) == [ok |-> TRUE, val |-> v, next |-> i]

RECURSIVE ParseValue(_, _)
RECURSIVE ParseMembers(_, _, _)
RECURSIVE ParseElements(_, _, _)

\* One JSON value starting at lexeme i: [ok, val, next].
ParseValue(toks, i) ==
    IF i > Len(toks) THEN Fail(i)
    ELSE LET tok == toks[i] IN
         CASE tok.lex = "{" ->
                  IF i + 1 <= Len(toks) /\ toks[i + 1].lex = "}"
                  THEN Ok(JObj(EmptyDict), i + 2)
                  ELSE ParseMembers(toks, i + 1, EmptyDict)
           [] tok.lex = "[" ->
                  IF i + 1 <= Len(toks) /\ toks[i + 1].lex = "]"
                  THEN Ok(JList(<<>>), i + 2)
                  ELSE ParseElements(toks, i + 1, <<>>)
           [] tok.lex = "str" -> Ok(JStr(tok.s), i + 1)
           [] tok.lex = "num" -> Ok(JInt(tok.n), i + 1)
           [] tok.lex = "true" -> Ok(JBool(TRUE), i + 1)
           [] tok.lex = "false" -> Ok(JBool(FALSE), i + 1)
           [] tok.lex = "null" -> Ok(JNull, i + 1)
           [] OTHER -> Fail(i)

\* "key" : value { , "key" : value } "}"
ParseMembers(toks, i, acc) ==
    IF i + 1 > Len(toks) \/ toks[i].lex # "str" \/ toks[i + 1].lex # ":"
    THEN Fail(i)
    ELSE LET r == ParseValue(toks, i + 2) IN
         IF ~r.ok \/ r.next > Len(toks) THEN Fail(r.next)
         ELSE LET d == DictPut(acc, toks[i].s, r.val) IN
              CASE toks[r.next].lex = "}" -> Ok(JObj(d), r.next + 1)
                [] toks[r.next].lex = "," -> ParseMembers(toks, r.next + 1, d)
                [] OTHER -> Fail(r.next)

\* value { , value } "]"
ParseElements(toks, i, acc) ==
    LET r == ParseValue(toks, i) IN
    IF ~r.ok \/ r.next > Len(toks) THEN Fail(r.next)
    ELSE LET e == Append(acc, r.val) IN
         CASE toks[r.next].lex = "]" -> Ok(JList(e), r.next + 1)
           [] toks[r.next].lex = "," -> ParseElements(toks, r.next + 1, e)
           [] OTHER -> Fail(r.next)

\* json.loads(text): one value and nothing after it, else JSONDecodeError.
json_loads(toks) ==
    LET r == ParseValue(toks, 1) IN
    IF r.ok /\ r.next = Len(toks) + 1 THEN Ok(r.val, r.next) ELSE Fail(r.next)

\* re.search(r'\{[\s\S]*\}', text): from the first "{" to the last "}" after it.
Opens(toks) == {i \in 1..Len(toks) : toks[i].lex = "{"}
Closes(toks) == {i \in 1..Len(toks) : toks[i].lex = "}"}
Min(s) == CHOOSE x \in s : \A y \in s : x <= y
Max(s) == CHOOSE x \in s : \A y \in s : x >= y

\* A bug: the non-greedy pattern, which stops at the first "}".
re_search_lazy(toks) ==
    IF Opens(toks) = {} THEN [found |-> FALSE, group |-> <<>>]
    ELSE LET first == Min(Opens(toks))
             after == {i \in Closes(toks) : i > first}
         IN  IF after = {} THEN [found |-> FALSE, group |-> <<>>]
             ELSE [found |-> TRUE, group |-> SubSeq(toks, first, Min(after))]

re_search(toks) ==
    IF Opens(toks) = {} THEN [found |-> FALSE, group |-> <<>>]
    ELSE LET first == Min(Opens(toks))
             after == {i \in Closes(toks) : i > first}
         IN  IF after = {} THEN [found |-> FALSE, group |-> <<>>]
             ELSE [found |-> TRUE, group |-> SubSeq(toks, first, Max(after))]


(***************************************************************************)
(* The pydantic models of the response.  A constructor call on v           *)
(* needs v to be a mapping (TypeError otherwise), every field present and  *)
(* of the field's type (ValidationError otherwise); keys that are not      *)
(* fields are ignored.  [ok, val, err].                                    *)
(***************************************************************************)
Built(v) == [ok |-> TRUE, val |-> v, err |-> "none"]
Raised(e) == [ok |-> FALSE, val |-> JNull, err |-> e]

IsStr(d, f) == f \in DOMAIN d /\ d[f].t = "str"
IsInt(d, f) == f \in DOMAIN d /\ d[f].t = "int"
IsBool(d, f) == f \in DOMAIN d /\ d[f].t = "bool"
IsStrList(d, f) ==
    /\ f \in DOMAIN d
    /\ d[f].t = "list"
    /\ \A i \in 1..Len(d[f].e) : d[f].e[i].t = "str"

ActionItem(item) ==
    IF item.t # "dict" THEN Raised("TypeError")
    ELSE IF IsStr(item.d, "task") /\ IsStr(item.d, "owner") /\ IsStr(item.d, "deadline")
    THEN Built([task |-> item.d["task"].s,
                owner |-> item.d["owner"].s,
                deadline |-> item.d["deadline"].s])
    ELSE Raised("ValidationError")

OpenPoint(point) ==
    IF point.t # "dict" THEN Raised("TypeError")
    ELSE IF IsStr(point.d, "topic") /\ IsStr(point.d, "context") /\ IsBool(point.d, "blocking")
    THEN Built([topic |-> point.d["topic"].s,
                context |-> point.d["context"].s,
                blocking |-> point.d["blocking"].b])
    ELSE Raised("ValidationError")

FollowUpAssessment(v) ==
    IF v.t # "dict" THEN Raised("TypeError")
    ELSE IF /\ IsBool(v.d, "follow_up_needed")
            /\ IsStr(v.d, "reason")
            /\ IsStrList(v.d, "suggested_topics")
    THEN Built([follow_up_needed |-> v.d["follow_up_needed"].b,
                reason |-> v.d["reason"].s,
                suggested_topics |->
                    [i \in 1..Len(v.d["suggested_topics"].e) |->
                        v.d["suggested_topics"].e[i].s]])
    ELSE Raised("ValidationError")

MeetingFruitfulness(v) ==
    IF v.t # "dict" THEN Raised("TypeError")
    ELSE IF IsInt(v.d, "score") /\ IsStr(v.d, "verdict") /\ IsStr(v.d, "explanation")
    THEN Built([score |-> v.d["score"].n,
                verdict |-> v.d["verdict"].s,
                explanation |-> v.d["explanation"].s])
    ELSE Raised("ValidationError")

\* The keys of a dict as a sequence, as iterating the dict yields them.
RECURSIVE KeySeq(_)
KeySeq(ks) ==
    IF ks = {} THEN <<>>
    ELSE LET k == CHOOSE x \in ks : TRUE IN <<JStr(k)>> \o KeySeq(ks \ {k})

\* "for item in v": a list yields its elements, a dict its keys, a str its
\* characters (written for strings of at most one character); None, a number
\* or a bool is not iterable (TypeError).
Iterable(v) == v.t \in {"list", "dict", "str"}
Iterate(v) ==
    CASE v.t = "list" -> v.e
      [] v.t = "dict" -> KeySeq(DOMAIN v.d)
      [] v.t = "str" -> IF v.s = "" THEN <<>> ELSE <<JStr(v.s)>>
      [] OTHER -> <<>>

\* The list a comprehension collects from the results rs of building each
\* element: the first element that raises ends it.
Collect(rs) ==
    LET bad == {i \in 1..Len(rs) : ~rs[i].ok} IN
    IF bad # {} THEN Raised(rs[Min(bad)].err)
    ELSE Built([i \in 1..Len(rs) |-> rs[i].val])

DefaultFollowUp ==
    JObj([follow_up_needed |-> JBool(FALSE),
          reason |-> JStr("Unable to determine"),
          suggested_topics |-> JList(<<>>)])

DefaultFruitfulness ==
    JObj([score |-> JInt(0),
          verdict |-> JStr("Unable to analyze"),
          explanation |-> JStr("Analysis failed")])

ActionItemsOf(data) ==
    LET v == DictGet(data.d, "action_items", JList(<<>>)) IN
    IF ~Iterable(v) THEN Raised("TypeError")
    ELSE Collect([i \in 1..Len(Iterate(v)) |-> ActionItem(Iterate(v)[i])])

OpenPointsOf(data) ==
    LET v == DictGet(data.d, "open_points", JList(<<>>)) IN
    IF ~Iterable(v) THEN Raised("TypeError")
    ELSE Collect([i \in 1..Len(Iterate(v)) |-> OpenPoint(Iterate(v)[i])])

FollowUpOf(data) == FollowUpAssessment(DictGet(data.d, "follow_up_assessment", DefaultFollowUp))
\* A bug: the key is read without a default.
FruitfulnessOfNoDefault(data) ==
    IF "fruitfulness" \in DOMAIN data.d
    THEN MeetingFruitfulness(data.d["fruitfulness"])
    ELSE Raised("KeyError")
FruitfulnessOf(data) == MeetingFruitfulness(DictGet(data.d, "fruitfulness", DefaultFruitfulness))

\* The fields both services build from analysis_data; analysis_data.get on a
\* value that is no dict raises AttributeError.
CommonFields(data) ==
    IF data.t # "dict" THEN Raised("AttributeError")
    ELSE LET ai == ActionItemsOf(data)
             op == OpenPointsOf(data)
             fu == FollowUpOf(data)
             fr == FruitfulnessOf(data)
         IN  CASE ~ai.ok -> Raised(ai.err)
               [] ~op.ok -> Raised(op.err)
               [] ~fu.ok -> Raised(fu.err)
               [] ~fr.ok -> Raised(fr.err)
               [] OTHER -> Built([action_items |-> ai.val,
                                  open_points |-> op.val,
                                  follow_up_assessment |-> fu.val,
                                  fruitfulness |-> fr.val])

(***************************************************************************)
(* Requests and outcomes.  A transcript is a sequence of characters; an    *)
(* Optional[int] field is JNull or JInt(n).                                *)
(***************************************************************************)
Whitespace == {" ", "\n", "\t"}

RECURSIVE LStrip(_)
LStrip(s) == IF s # <<>> /\ Head(s) \in Whitespace THEN LStrip(Tail(s)) ELSE s

RECURSIVE RStrip(_)
RStrip(s) ==
    IF s # <<>> /\ s[Len(s)] \in Whitespace THEN RStrip(SubSeq(s, 1, Len(s) - 1)) ELSE s

\* A bug: the transcript is tested without being stripped.
StripNothing(s) == s

\* str.strip()
Strip(s) == RStrip(LStrip(s))

\* bool(x) of an Optional[int]
Truthy(v) == v.t = "int" /\ v.n # 0

Pending == [kind |-> "pending"]
HTTPException(status, detail, cause) ==
    [kind |-> "error", status |-> status, detail |-> detail, cause |-> cause]
Response(body) == [kind |-> "ok", status |-> 200, body |-> body]

Finished(o, n) == [stage |-> "done", out |-> o, lookups |-> n]
Calling(prompt, target, n) ==
    [stage |-> "call", out |-> Pending, lookups |-> n, prompt |-> prompt, target |-> target]

(***************************************************************************)
(* Prompt rendering: TEMPLATE.format(transcript=...) and the "Context:"    *)
(* block, as a sequence of lines.                                          *)
(***************************************************************************)
Format(template, transcript) == [template |-> template, transcript |-> transcript]
ContextLine(label, v, unit) == [label |-> label, value |-> v.n, unit |-> unit]

WithContext(context_parts, prompt) ==
    IF context_parts # <<>>
    THEN <<[line |-> "Context:"]>> \o context_parts \o <<[line |-> ""]>> \o <<prompt>>
    ELSE <<prompt>>

GeminiContextParts(request) ==
    (IF Truthy(request.meeting_duration_minutes)
     THEN <<ContextLine("Meeting duration", request.meeting_duration_minutes, "minutes")>>
     ELSE <<>>)
    \o (IF Truthy(request.expected_attendees)
        THEN <<ContextLine("Expected attendees", request.expected_attendees, "")>>
        ELSE <<>>)

AzureContextParts(request) ==
    (IF Truthy(request.meeting_booked_duration)
     THEN <<ContextLine("Meeting booked duration", request.meeting_booked_duration, "minutes")>>
     ELSE <<>>)
    \o (IF Truthy(request.meeting_duration_minutes)
        THEN <<ContextLine("Actual meeting duration", request.meeting_duration_minutes, "minutes")>>
        ELSE <<>>)
    \o (IF Truthy(request.expected_attendees)
        THEN <<ContextLine("Expected attendees", request.expected_attendees, "")>>
        ELSE <<>>)

(***************************************************************************)
(* Credentials and clients.  os.environ.get(name) is JNull when the        *)
(* variable is unset; "not api_key" holds for None and for "".             *)
(***************************************************************************)
EnvNames == {"GOOGLE_CLOUD_API_KEY", "AZURE_OPENAI_API_KEY_GPT41", "AZURE_OPENAI_API_KEY_GPT5"}

NoKey(v) == v.t = "null" \/ v.s = ""

AZURE_CONFIGS ==
    [m \in {"gpt-4.1", "gpt-5"} |->
        IF m = "gpt-4.1"
        THEN [endpoint |-> "https://fy26-hackon-q3.openai.azure.com/",
              deployment |-> "fy26-hackon-q3-gpt-4.1",
              api_version |-> "2025-01-01-preview",
              api_key_env |-> "AZURE_OPENAI_API_KEY_GPT41"]
        ELSE [endpoint |-> "https://siddh-m9gwv1hd-eastus2.cognitiveservices.azure.com/",
              deployment |-> "hackon-fy26q3-gpt5",
              api_version |-> "2025-01-01-preview",
              api_key_env |-> "AZURE_OPENAI_API_KEY_GPT5"]]

\* [ok, error, lookups, target]: lookups counts the reads of the environment.
get_gemini_client(e) ==
    LET api_key == e["GOOGLE_CLOUD_API_KEY"] IN
    IF NoKey(api_key)
    THEN [ok |-> FALSE,
          error |-> HTTPException(500, "GOOGLE_CLOUD_API_KEY environment variable not set", "none"),
          lookups |-> 1, target |-> "none"]
    ELSE [ok |-> TRUE, error |-> Pending, lookups |-> 1, target |-> "gemini-2.5-pro"]

\* A bug: the credential of gpt-4.1 is read for every model.
get_azure_client_one_key(model, e) ==
    IF model \notin DOMAIN AZURE_CONFIGS
    THEN [ok |-> FALSE, error |-> HTTPException(400, "Invalid model", "none"),
          lookups |-> 0, target |-> "none"]
    ELSE IF NoKey(e["AZURE_OPENAI_API_KEY_GPT41"])
    THEN [ok |-> FALSE,
          error |-> HTTPException(500, "environment variable not set for model",
                                  "AZURE_OPENAI_API_KEY_GPT41"),
          lookups |-> 1, target |-> "none"]
    ELSE [ok |-> TRUE, error |-> Pending, lookups |-> 1,
          target |-> AZURE_CONFIGS[model].deployment]

get_azure_client(model, e) ==
    IF model \notin DOMAIN AZURE_CONFIGS
    THEN [ok |-> FALSE, error |-> HTTPException(400, "Invalid model", "none"),
          lookups |-> 0, target |-> "none"]
    ELSE LET config == AZURE_CONFIGS[model]
             api_key == e[config.api_key_env]
         IN  IF NoKey(api_key)
             THEN [ok |-> FALSE,
                   error |-> HTTPException(500, "environment variable not set for model",
                                           config.api_key_env),
                   lookups |-> 1, target |-> "none"]
             ELSE [ok |-> TRUE, error |-> Pending, lookups |-> 1,
                   target |-> config.deployment]

\* The request body against TranscriptRequest: model is a Literal of the two names.
AzureRequestValid(request) == request.model \in {"gpt-4.1", "gpt-5"}

(***************************************************************************)
(* The analyze handlers up to the provider call.                           *)
(***************************************************************************)
GeminiAnalyzeStart(request, e) ==
    IF Strip(request.transcript) = <<>>
    THEN Finished(HTTPException(400, "Transcript cannot be empty", "none"), 0)
    ELSE LET prompt == WithContext(GeminiContextParts(request),
                                   Format("ANALYSIS_PROMPT", request.transcript))
             c == get_gemini_client(e)
         IN  IF ~c.ok THEN Finished(c.error, c.lookups)
             ELSE Calling(prompt, c.target, c.lookups)

AzureAnalyzeStart(request, e) ==
    IF ~AzureRequestValid(request)
    THEN Finished(HTTPException(422, "Input should be 'gpt-4.1' or 'gpt-5'", "none"), 0)
    ELSE IF Strip(request.transcript) = <<>>
    THEN Finished(HTTPException(400, "Transcript cannot be empty", "none"), 0)
    ELSE LET prompt == WithContext(AzureContextParts(request),
                                   Format("ANALYSIS_PROMPT", request.transcript))
             c == get_azure_client(request.model, e)
         IN  IF ~c.ok THEN Finished(c.error, c.lookups)
             ELSE Calling(prompt, c.target, c.lookups)

(***************************************************************************)
(* The analyze handlers from the provider's answer on.                     *)
(***************************************************************************)
\* A bug: a reply that cannot be parsed is taken as an empty object.
ParseReplyDefaulting(text) ==
    LET whole == json_loads(text) IN
    IF whole.ok THEN Built(whole.val)
    ELSE LET json_match == re_search(text) IN
         IF json_match.found /\ json_loads(json_match.group).ok
         THEN Built(json_loads(json_match.group).val)
         ELSE Built(JObj(EmptyDict))

\* json.loads of the whole text, then of the regex match: [ok, val, err].
\* "NoMatch" is the HTTPException the handler raises itself; a match that
\* does not parse raises JSONDecodeError.
ParseReply(text) ==
    LET whole == json_loads(text) IN
    IF whole.ok THEN Built(whole.val)
    ELSE LET json_match == re_search(text) IN
         IF json_match.found
         THEN LET inner == json_loads(json_match.group) IN
              IF inner.ok THEN Built(inner.val) ELSE Raised("JSONDecodeError")
         ELSE Raised("NoMatch")

\* A bug: the durations are tested for truth, as the context lines test them.
TimeDifferenceTruthy(request) ==
    IF Truthy(request.meeting_booked_duration) /\ Truthy(request.meeting_duration_minutes)
    THEN JInt(request.meeting_booked_duration.n - request.meeting_duration_minutes.n)
    ELSE JNull

\* time_difference of the Azure handler
TimeDifference(request) ==
    IF request.meeting_booked_duration.t # "null" /\ request.meeting_duration_minutes.t # "null"
    THEN JInt(request.meeting_booked_duration.n - request.meeting_duration_minutes.n)
    ELSE JNull

\* A bug: a failed provider call is swallowed and the defaults are returned.
AnalysisSwallowing(response) ==
    IF response.kind = "text" /\ ParseReply(response.text).ok
       /\ CommonFields(ParseReply(response.text).val).ok
    THEN [ok |-> TRUE, val |-> CommonFields(ParseReply(response.text).val).val,
          error |-> Pending]
    ELSE [ok |-> TRUE, val |-> CommonFields(JObj(EmptyDict)).val, error |-> Pending]

\* The outcome of parsing the reply and building the common fields:
\* [ok, val, error].
Analysis(response) ==
    CASE response.kind = "error" ->
             [ok |-> FALSE, val |-> JNull,
              error |-> HTTPException(500, "Analysis failed", response.message)]
      [] response.kind = "none" ->
             [ok |-> FALSE, val |-> JNull,
              error |-> HTTPException(500, "Analysis failed", "TypeError")]
      [] OTHER ->
             LET parsed == ParseReply(response.text) IN
             IF ~parsed.ok
             THEN [ok |-> FALSE, val |-> JNull,
                   error |-> IF parsed.err = "NoMatch"
                             THEN HTTPException(500, "Failed to parse LLM response as JSON", "none")
                             ELSE HTTPException(500, "Analysis failed", parsed.err)]
             ELSE LET fields == CommonFields(parsed.val) IN
                  IF ~fields.ok
                  THEN [ok |-> FALSE, val |-> JNull,
                        error |-> HTTPException(500, "Analysis failed", fields.err)]
                  ELSE [ok |-> TRUE, val |-> fields.val, error |-> Pending]

GeminiAnalyzeFinish(request, response) ==
    LET a == Analysis(response) IN
    IF a.ok THEN Response(a.val) ELSE a.error

AzureAnalyzeFinish(request, response) ==
    LET a == Analysis(response) IN
    IF a.ok
    THEN Response([action_items |-> a.val.action_items,
                   open_points |-> a.val.open_points,
                   follow_up_assessment |-> a.val.follow_up_assessment,
                   fruitfulness |-> a.val.fruitfulness,
                   model_used |-> request.model,
                   timeDifference |-> TimeDifference(request)])
    ELSE a.error

(***************************************************************************)
(* The prompt-only operations.                                             *)
(***************************************************************************)
GeminiPromptOutcome(request) ==
    IF Strip(request.transcript) = <<>>
    THEN HTTPException(400, "Transcript cannot be empty", "none")
    ELSE Response([prompt |-> WithContext(GeminiContextParts(request),
                                          Format("LEGACY_ANALYSIS_PROMPT", request.transcript)),
                   instructions |-> "Send this prompt to an LLM (Claude, GPT-4, Gemini) to get the analysis"])

AzurePromptOutcome(request) ==
    IF ~AzureRequestValid(request)
    THEN HTTPException(422, "Input should be 'gpt-4.1' or 'gpt-5'", "none")
    ELSE IF Strip(request.transcript) = <<>>
    THEN HTTPException(400, "Transcript cannot be empty", "none")
    ELSE Response([prompt |-> WithContext(AzureContextParts(request),
                                          Format("ANALYSIS_PROMPT", request.transcript)),
                   instructions |-> request.model])

\* get_prompt(name, arguments) of the MCP server
McpPromptOutcome(request) ==
    IF request.name = "analyze-meeting"
    THEN LET transcript == DictGet(request.arguments, "transcript", <<>>) IN
         IF transcript = <<>>
         THEN [kind |-> "error", exc |-> "ValueError", detail |-> "Transcript is required"]
         ELSE [kind |-> "ok",
               messages |-> <<[role |-> "user",
                               text |-> Format("ANALYSIS_PROMPT", transcript)]>>]
    ELSE [kind |-> "error", exc |-> "ValueError", detail |-> "Unknown prompt"]

(***************************************************************************)
(* The handlers as steps of the serving processes.  Each handler is an     *)
(* "async def" with no await in its body: it runs on the event loop of its *)
(* process from its first statement to its return, and the provider call   *)
(* (client.models.generate_content, client.chat.completions.create) is a   *)
(* synchronous call made on that loop.                                     *)
(***************************************************************************)
Services == {"gemini", "azure", "mcp"}

Begin(r, svc, op) ==
    /\ pc[r] = "received"
    /\ req[r].svc = svc
    /\ req[r].op = op
    /\ loop[svc] = 0

Advance(r, svc, st) ==
    /\ lookups' = [lookups EXCEPT ![r] = @ + st.lookups]
    /\ IF st.stage = "done"
       THEN /\ pc' = [pc EXCEPT ![r] = "done"]
            /\ out' = [out EXCEPT ![r] = st.out]
            /\ UNCHANGED <<calls, sent, loop>>
       ELSE /\ pc' = [pc EXCEPT ![r] = "waiting"]
            /\ calls' = [calls EXCEPT ![r] = @ + 1]
            /\ sent' = [sent EXCEPT ![r] = st.prompt]
            /\ loop' = [loop EXCEPT ![svc] = r]
            /\ UNCHANGED out
    /\ UNCHANGED <<env, req, backend>>

Return(r, svc, o) ==
    /\ pc' = [pc EXCEPT ![r] = "done"]
    /\ out' = [out EXCEPT ![r] = o]
    /\ loop' = [loop EXCEPT ![svc] = 0]
    /\ UNCHANGED <<env, req, backend, lookups, calls, sent>>

Reply(r, o) ==
    /\ pc' = [pc EXCEPT ![r] = "done"]
    /\ out' = [out EXCEPT ![r] = o]
    /\ UNCHANGED <<env, req, backend, loop, lookups, calls, sent>>

GeminiAnalyze(r) ==
    /\ Begin(r, "gemini", "analyze")
    /\ Advance(r, "gemini", GeminiAnalyzeStart(req[r], env))

GeminiAnalyzeResume(r) ==
    /\ pc[r] = "waiting"
    /\ req[r].svc = "gemini"
    /\ loop["gemini"] = r
    /\ Return(r, "gemini", GeminiAnalyzeFinish(req[r], backend[r]))

AzureAnalyze(r) ==
    /\ Begin(r, "azure", "analyze")
    /\ Advance(r, "azure", AzureAnalyzeStart(req[r], env))

AzureAnalyzeResume(r) ==
    /\ pc[r] = "waiting"
    /\ req[r].svc = "azure"
    /\ loop["azure"] = r
    /\ Return(r, "azure", AzureAnalyzeFinish(req[r], backend[r]))

GeminiPrompt(r) ==
    /\ Begin(r, "gemini", "prompt")
    /\ Reply(r, GeminiPromptOutcome(req[r]))

AzurePrompt(r) ==
    /\ Begin(r, "azure", "prompt")
    /\ Reply(r, AzurePromptOutcome(req[r]))

McpGetPrompt(r) ==
    /\ Begin(r, "mcp", "get_prompt")
    /\ Reply(r, McpPromptOutcome(req[r]))

Next ==
    \/ \E r \in Reqs : GeminiAnalyze(r)
    \/ \E r \in Reqs : GeminiAnalyzeResume(r)
    \/ \E r \in Reqs : AzureAnalyze(r)
    \/ \E r \in Reqs : AzureAnalyzeResume(r)
    \/ \E r \in Reqs : GeminiPrompt(r)
    \/ \E r \in Reqs : AzurePrompt(r)
    \/ \E r \in Reqs : McpGetPrompt(r)

(***************************************************************************)
(* Inputs: requests, environments and provider behaviours.                 *)
(***************************************************************************)
Alphabet == {" ", "\n", "a"}
Transcripts == UNION {[1..n -> Alphabet] : n \in 0..MaxTranscriptLen}
Durations == {JNull, JInt(0), JInt(45), JInt(60)}
Attendees == {JNull, JInt(3)}
Models == {"gpt-4.1", "gpt-5", "gpt-3.5"}
KeyValues == {JNull, JStr(""), JStr("secret")}

NoRequest == [svc |-> "none", op |-> "none"]
NoBackend == [kind |-> "unused"]

GeminiRequests(ops, ts, ds, ns) ==
    [svc : {"gemini"}, op : ops, transcript : ts,
     meeting_duration_minutes : ds, expected_attendees : ns]

AzureRequests(ops, ts, bs, ds, ns, ms) ==
    [svc : {"azure"}, op : ops, transcript : ts, meeting_booked_duration : bs,
     meeting_duration_minutes : ds, expected_attendees : ns, model : ms]

McpRequests(names, ts) ==
    [svc : {"mcp"}, op : {"get_prompt"}, name : names,
     arguments : {EmptyDict} \cup {[k \in {"transcript"} |-> t] : t \in ts}]

\* The environments of the process that serves the request: the variables
\* the service does not read are unset.
EnvsFor(request) ==
    {e \in [EnvNames -> KeyValues] :
        \A n \in EnvNames :
            CASE request.svc = "gemini" -> n # "GOOGLE_CLOUD_API_KEY" => e[n] = JNull
              [] request.svc = "azure" -> n = "GOOGLE_CLOUD_API_KEY" => e[n] = JNull
              [] OTHER -> e[n] = JNull}

AllSet == [n \in EnvNames |-> JStr("secret")]

Arr(elems) ==
    <<P("[")>> \o
    (IF elems = <<>> THEN <<>> ELSE elems[1]) \o
    (IF Len(elems) >= 2 THEN <<P(",")>> \o elems[2] ELSE <<>>) \o
    (IF Len(elems) >= 3 THEN <<P(",")>> \o elems[3] ELSE <<>>) \o
    (IF Len(elems) >= 4 THEN <<P(",")>> \o elems[4] ELSE <<>>) \o
    <<P("]")>>
Obj(members) ==
    <<P("{")>> \o
    (IF members = <<>> THEN <<>> ELSE members[1]) \o
    (IF Len(members) >= 2 THEN <<P(",")>> \o members[2] ELSE <<>>) \o
    (IF Len(members) >= 3 THEN <<P(",")>> \o members[3] ELSE <<>>) \o
    (IF Len(members) >= 4 THEN <<P(",")>> \o members[4] ELSE <<>>) \o
    <<P("}")>>
Mem(k, v) == <<S(k), P(":")>> \o v
Str(s) == <<S(s)>>

ItemFull == Obj(<<Mem("task", Str("Send report")), Mem("owner", Str("Ann")), Mem("deadline", Str("Friday"))>>)
ItemFull2 == Obj(<<Mem("task", Str("Book room")), Mem("owner", Str("Bob")), Mem("deadline", Str("Monday"))>>)
ItemNoOwner == Obj(<<Mem("task", Str("Send report")), Mem("deadline", Str("Friday"))>>)
ItemNoDeadline == Obj(<<Mem("task", Str("Send report")), Mem("owner", Str("Ann"))>>)
ItemTaskOnly == Obj(<<Mem("task", Str("Send report"))>>)
ItemNoTask == Obj(<<Mem("owner", Str("Ann")), Mem("deadline", Str("Friday"))>>)

PointTrue == Obj(<<Mem("topic", Str("Budget")), Mem("context", Str("No owner")), Mem("blocking", <<P("true")>>)>>)
PointFalse == Obj(<<Mem("topic", Str("Logo")), Mem("context", Str("Later")), Mem("blocking", <<P("false")>>)>>)
PointNoBlocking == Obj(<<Mem("topic", Str("Budget")), Mem("context", Str("No owner"))>>)
PointBadBlocking == Obj(<<Mem("topic", Str("Budget")), Mem("context", Str("No owner")), Mem("blocking", Str("maybe"))>>)

FollowUpGiven ==
    Obj(<<Mem("follow_up_needed", <<P("true")>>), Mem("reason", Str("Open issues")),
          Mem("suggested_topics", Arr(<<Str("Budget")>>))>>)
FruitfulnessGiven ==
    Obj(<<Mem("score", <<N(85)>>), Mem("verdict", Str("Fruitful")), Mem("explanation", Str("Decisions made"))>>)
FruitfulnessOutOfRange ==
    Obj(<<Mem("score", <<N(150)>>), Mem("verdict", Str("Great")), Mem("explanation", Str("y"))>>)

\* The values a reply may give under each key; <<>> stands for "key absent".
ActionItemsGiven ==
    {<<>>, Arr(<<>>), Arr(<<ItemFull>>), Arr(<<ItemFull, ItemFull2>>), Arr(<<ItemFull2, ItemFull>>),
     Arr(<<ItemTaskOnly>>), Arr(<<ItemNoOwner>>), Arr(<<ItemFull, ItemNoDeadline>>),
     Arr(<<ItemFull, ItemNoTask, ItemFull2>>), Arr(<<ItemNoTask>>),
     <<P("null")>>, Str("x"), Str(""), <<N(7)>>, Obj(<<>>), Obj(<<Mem("k", <<N(1)>>)>>)}
OpenPointsGiven ==
    {<<>>, Arr(<<>>), Arr(<<PointFalse, PointTrue>>), Arr(<<PointNoBlocking>>),
     Arr(<<PointTrue, PointBadBlocking>>)}
FollowUpsGiven == {<<>>, FollowUpGiven, <<P("null")>>}
FruitfulnessesGiven == {<<>>, FruitfulnessGiven, FruitfulnessOutOfRange, Str("high")}

MemberIf(k, v) == IF v = <<>> THEN <<>> ELSE <<Mem(k, v)>>

ReplyObjects ==
    {Obj(MemberIf("action_items", ai) \o MemberIf("open_points", op)
         \o MemberIf("follow_up_assessment", fu) \o MemberIf("fruitfulness", fr)) :
        ai \in ActionItemsGiven, op \in OpenPointsGiven,
        fu \in FollowUpsGiven, fr \in FruitfulnessesGiven}

\* A reply wraps the object in prose, in a code fence, or in text with braces of its own.
Wrapped(o) ==
    {o,
     <<W("Sure!"), W("Here you go:")>> \o o,
     <<W("~~~json")>> \o o \o <<W("~~~")>>,
     o \o <<W("Note"), P("{"), W("draft"), P("}")>>,
     <<P("}"), W("see")>> \o o}

NotJson ==
    {<<W("not"), W("json"), W("at"), W("all")>>,
     <<>>,
     <<P("{"), S("action_items"), P(":")>>,
     <<P("}"), W("and"), P("{")>>,
     Arr(<<ItemFull>>),
     <<N(42)>>}

ReplyTexts == (UNION {Wrapped(o) : o \in ReplyObjects}) \cup NotJson

GoodReply ==
    Obj(<<Mem("action_items", Arr(<<ItemFull>>)), Mem("open_points", Arr(<<PointTrue>>)),
          Mem("follow_up_assessment", FollowUpGiven), Mem("fruitfulness", FruitfulnessGiven)>>)

Text(toks) == [kind |-> "text", text |-> toks]
ProviderError(m) == [kind |-> "error", message |-> m]

FewBackends == {ProviderError("Connection error"), [kind |-> "none"], Text(GoodReply)}

BackendsFor(request, bs) == IF request.op = "analyze" THEN bs ELSE {NoBackend}

Start(request, e, b) ==
    /\ env = e
    /\ req = [r \in Reqs |-> IF r = 1 THEN request ELSE NoRequest]
    /\ backend = [r \in Reqs |-> IF r = 1 THEN b ELSE NoBackend]
    /\ pc = [r \in Reqs |-> IF r = 1 THEN "received" ELSE "none"]
    /\ loop = [s \in Services |-> 0]
    /\ lookups = [r \in Reqs |-> 0]
    /\ calls = [r \in Reqs |-> 0]
    /\ sent = [r \in Reqs |-> <<>>]
    /\ out = [r \in Reqs |-> Pending]

\* One request of any shape, against a provider of few behaviours.
AnyRequests ==
    GeminiRequests({"analyze", "prompt"}, Transcripts, Durations, Attendees)
    \cup AzureRequests({"analyze", "prompt"}, Transcripts, Durations, Durations, Attendees, Models)
    \cup McpRequests({"analyze-meeting", "summarize"}, Transcripts)

Init ==
    \E request \in AnyRequests :
        \E e \in EnvsFor(request), b \in BackendsFor(request, FewBackends) :
            Start(request, e, b)

Spec == Init /\ [][Next]_vars

\* One plain request, against a provider of any reply.
PlainRequests ==
    GeminiRequests({"analyze", "prompt"}, {<<"a">>}, {JInt(45)}, {JNull})
    \cup AzureRequests({"analyze", "prompt"}, {<<"a">>}, {JInt(60)}, {JInt(45)}, {JNull}, {"gpt-4.1"})
    \cup McpRequests({"analyze-meeting"}, {<<"a">>})

InitReply ==
    \E request \in PlainRequests :
        \E b \in BackendsFor(request, {Text(t) : t \in ReplyTexts}) :
            Start(request, AllSet, b)

SpecReply == InitReply /\ [][Next]_vars

\* Several requests in flight at once, each of a few shapes.
AllUnset == [n \in EnvNames |-> JNull]

ConcRequests ==
    GeminiRequests({"analyze", "prompt"}, {<<"a">>, <<" ">>}, {JNull}, {JNull})
    \cup AzureRequests({"analyze", "prompt"}, {<<"a">>, <<" ">>}, {JNull}, {JNull}, {JNull}, {"gpt-4.1"})
    \cup McpRequests({"analyze-meeting"}, {<<"a">>})

ConcBackends == {ProviderError("Connection error"), Text(GoodReply)}

InitConc ==
    \E rq \in [Reqs -> ConcRequests], e \in {AllSet, AllUnset} :
        \E b \in {f \in [Reqs -> ConcBackends \cup {NoBackend}] :
                    \A r \in Reqs : f[r] \in BackendsFor(rq[r], ConcBackends)} :
            /\ env = e
            /\ req = rq
            /\ backend = b
            /\ pc = [r \in Reqs |-> "received"]
            /\ loop = [s \in Services |-> 0]
            /\ lookups = [r \in Reqs |-> 0]
            /\ calls = [r \in Reqs |-> 0]
            /\ sent = [r \in Reqs |-> <<>>]
            /\ out = [r \in Reqs |-> Pending]

SpecConc == InitConc /\ [][Next]_vars

(***************************************************************************)
(* Properties.                                                             *)
(***************************************************************************)
Blank(t) == \A i \in 1..Len(t) : t[i] \in Whitespace
Done(r) == pc[r] = "done"
IsAnalyze(r) == req[r].op = "analyze"
Failed(r) == out[r].kind = "error"
Succeeded(r) == out[r].kind = "ok"
ClientError(r) == Failed(r) /\ out[r].status \in 400..499
ServerError(r) == Failed(r) /\ out[r].status \in 500..599

\* C1: an analyze request (Gemini or Azure service) whose transcript is empty
\* or only whitespace ends with a client error (400 when the request body is
\* valid) and no credential lookup or provider invocation is ever made for
\* it, whatever its other fields and the environment are.
C1_BlankTranscriptRejected ==
    \A r \in Reqs :
        (IsAnalyze(r) /\ Blank(req[r].transcript)) =>
            /\ calls[r] = 0
            /\ lookups[r] = 0
            /\ pc[r] # "waiting"
            /\ Done(r) =>
                 /\ ClientError(r)
                 /\ (req[r].svc = "gemini" \/ req[r].model \in {"gpt-4.1", "gpt-5"})
                        => out[r].status = 400

C1_Witness ==
    \E r \in Reqs :
        /\ Done(r)
        /\ IsAnalyze(r)
        /\ req[r].svc = "azure"
        /\ req[r].transcript = <<" ", "\n">>
        /\ req[r].meeting_booked_duration = JInt(60)
        /\ env["AZURE_OPENAI_API_KEY_GPT41"] = JStr("secret")
        /\ out[r].status = 400

\* The reply texts from which no JSON object can be recovered: the strict
\* parse of the whole text fails, and there is no first-"{"-to-last-"}"
\* substring or its strict parse fails.
Unrecoverable(text) ==
    /\ ~json_loads(text).ok
    /\ re_search(text).found => ~json_loads(re_search(text).group).ok

\* C2: when no JSON object can be recovered from the provider's reply text,
\* analyze ends with a server error (500) and never returns a MeetingAnalysis.
C2_UnparsableReplyFails ==
    \A r \in Reqs :
        (Done(r) /\ IsAnalyze(r) /\ calls[r] = 1 /\ backend[r].kind = "text"
         /\ Unrecoverable(backend[r].text)) =>
            /\ ServerError(r)
            /\ out[r].status = 500
            /\ "body" \notin DOMAIN out[r]

C2_Witness ==
    \E r \in Reqs :
        /\ Done(r)
        /\ IsAnalyze(r)
        /\ backend[r].kind = "text"
        /\ Unrecoverable(backend[r].text)
        /\ re_search(backend[r].text).found
        /\ out[r].status = 500
        /\ out[r].cause = "JSONDecodeError"

\* C3: one analyze call invokes the provider at most once, and when that
\* invocation fails the call ends with a server error that carries the
\* failure's message and returns no MeetingAnalysis.
C3_NoRetryNoSwallow ==
    \A r \in Reqs :
        /\ calls[r] <= 1
        /\ (Done(r) /\ IsAnalyze(r) /\ calls[r] = 1 /\ backend[r].kind = "error") =>
              /\ ServerError(r)
              /\ out[r].cause = backend[r].message
              /\ "body" \notin DOMAIN out[r]

C3_Witness ==
    \E r \in Reqs :
        /\ Done(r)
        /\ IsAnalyze(r)
        /\ calls[r] = 1
        /\ backend[r].kind = "error"
        /\ out[r].status = 500
        /\ out[r].cause = "Connection error"

\* The first step of the handler of request b.
Handle(b) ==
    \/ GeminiAnalyze(b)
    \/ AzureAnalyze(b)
    \/ GeminiPrompt(b)
    \/ AzurePrompt(b)
    \/ McpGetPrompt(b)

\* C4: while a request is waiting for its provider reply, another request
\* received by the same service process can take its step (be validated,
\* rejected, or start its own provider call).
C4_ProviderCallDoesNotBlock ==
    \A a, b \in Reqs :
        (a # b /\ pc[a] = "waiting" /\ pc[b] = "received" /\ req[a].svc = req[b].svc)
            => ENABLED Handle(b)

\* C5: a successful analyze call of the Azure service returns booked minus
\* actual duration as its time difference when the request supplied both,
\* and no time difference (null) when it did not supply both.
C5_TimeDifference ==
    \A r \in Reqs :
        (Done(r) /\ IsAnalyze(r) /\ req[r].svc = "azure" /\ Succeeded(r)) =>
            LET booked == req[r].meeting_booked_duration
                actual == req[r].meeting_duration_minutes
                td == out[r].body.timeDifference
            IN  IF booked.t = "int" /\ actual.t = "int"
                THEN td.t = "int" /\ td.n = booked.n - actual.n
                ELSE td.t = "null"

C5_Witness ==
    \E r \in Reqs :
        /\ Done(r)
        /\ req[r].svc = "azure"
        /\ IsAnalyze(r)
        /\ Succeeded(r)
        /\ req[r].meeting_booked_duration = JInt(45)
        /\ req[r].meeting_duration_minutes = JInt(60)
        /\ out[r].body.timeDifference = JInt(-15)

\* The transcript a prompt-only request carries.
PromptTranscript(r) ==
    IF req[r].svc = "mcp"
    THEN IF "transcript" \in DOMAIN req[r].arguments
         THEN req[r].arguments["transcript"] ELSE <<>>
    ELSE req[r].transcript

\* C6: every prompt-only operation (POST /analyze/prompt of either service,
\* get_prompt "analyze-meeting" of the MCP server) rejects a transcript
\* exactly when it is blank after trimming whitespace, as analyze does, and
\* never looks up a credential or invokes a provider.
C6_PromptValidationAsAnalyze ==
    \A r \in Reqs :
        (/\ Done(r)
         /\ req[r].op \in {"prompt", "get_prompt"}
         /\ req[r].svc = "azure" => req[r].model \in {"gpt-4.1", "gpt-5"}
         /\ req[r].svc = "mcp" => req[r].name = "analyze-meeting") =>
            /\ Failed(r) <=> Blank(PromptTranscript(r))
            /\ calls[r] = 0
            /\ lookups[r] = 0

\* The credential variable of each configured model name.
KeyOf(model) ==
    IF model = "gpt-4.1" THEN "AZURE_OPENAI_API_KEY_GPT41" ELSE "AZURE_OPENAI_API_KEY_GPT5"
CredentialPresent(model) == env[KeyOf(model)].t = "str" /\ env[KeyOf(model)].s # ""

\* C7: the Azure service invokes the provider only when the model selector
\* is a configured name and that model's credential is in the environment
\* at call time; an unrecognized selector ends the call with a client error
\* and a missing credential with a server error, both without a provider
\* call.
C7_AzureSelectorAndCredential ==
    \A r \in Reqs :
        (req[r].svc = "azure" /\ IsAnalyze(r)) =>
            /\ calls[r] > 0 =>
                  req[r].model \in {"gpt-4.1", "gpt-5"} /\ CredentialPresent(req[r].model)
            /\ (Done(r) /\ req[r].model \notin {"gpt-4.1", "gpt-5"}) =>
                  ClientError(r) /\ calls[r] = 0
            /\ (Done(r) /\ req[r].model \in {"gpt-4.1", "gpt-5"}
                /\ ~Blank(req[r].transcript) /\ ~CredentialPresent(req[r].model)) =>
                  ServerError(r) /\ calls[r] = 0 /\ lookups[r] = 1

C7_Witness ==
    \E r \in Reqs :
        /\ Done(r)
        /\ req[r].svc = "azure"
        /\ IsAnalyze(r)
        /\ req[r].model = "gpt-5"
        /\ ~Blank(req[r].transcript)
        /\ env["AZURE_OPENAI_API_KEY_GPT5"] = JStr("")
        /\ env["AZURE_OPENAI_API_KEY_GPT41"] = JStr("secret")
        /\ out[r].status = 500
        /\ calls[r] = 0

\* The object analyze obtained from the reply of request r.
Data(r) == ParseReply(backend[r].text)
HasObject(r) ==
    /\ Done(r)
    /\ IsAnalyze(r)
    /\ calls[r] = 1
    /\ backend[r].kind = "text"
    /\ Data(r).ok
    /\ Data(r).val.t = "dict"

GivenItem(v) == [task |-> v.d["task"].s, owner |-> v.d["owner"].s, deadline |-> v.d["deadline"].s]
GivenPoint(v) == [topic |-> v.d["topic"].s, context |-> v.d["context"].s, blocking |-> v.d["blocking"].b]

\* The action items and open points of the result are those of the object.
ListsAsGiven(body, d) ==
    /\ IF "action_items" \in DOMAIN d /\ d["action_items"].t = "list"
       THEN /\ Len(body.action_items) = Len(d["action_items"].e)
            /\ \A i \in 1..Len(body.action_items) :
                   body.action_items[i] = GivenItem(d["action_items"].e[i])
       ELSE body.action_items = <<>>
    /\ IF "open_points" \in DOMAIN d /\ d["open_points"].t = "list"
       THEN /\ Len(body.open_points) = Len(d["open_points"].e)
            /\ \A i \in 1..Len(body.open_points) :
                   body.open_points[i] = GivenPoint(d["open_points"].e[i])
       ELSE body.open_points = <<>>

\* The keys the object does give build their part of the result.
GivenKeysBuild(data) ==
    /\ ActionItemsOf(data).ok
    /\ OpenPointsOf(data).ok
    /\ "follow_up_assessment" \in DOMAIN data.d => FollowUpOf(data).ok
    /\ "fruitfulness" \in DOMAIN data.d => FruitfulnessOf(data).ok

\* C8: when the parsed object has no follow_up_assessment key the result's
\* follow-up record is {false, "Unable to determine", []}, and when it has no
\* fruitfulness key the result's fruitfulness is {0, "Unable to analyze",
\* "Analysis failed"}; the absence does not fail the call (it succeeds
\* whenever the keys that are given build), and the other fields are those
\* of the object.
C8_AbsentRecordsDefaulted ==
    \A r \in Reqs :
        HasObject(r) =>
            LET d == Data(r).val.d
                noFollowUp == "follow_up_assessment" \notin DOMAIN d
                noFruitfulness == "fruitfulness" \notin DOMAIN d
            IN  (noFollowUp \/ noFruitfulness) =>
                    /\ Succeeded(r) <=> GivenKeysBuild(Data(r).val)
                    /\ Succeeded(r) =>
                         /\ noFollowUp =>
                              out[r].body.follow_up_assessment =
                                  [follow_up_needed |-> FALSE,
                                   reason |-> "Unable to determine",
                                   suggested_topics |-> <<>>]
                         /\ noFruitfulness =>
                              out[r].body.fruitfulness =
                                  [score |-> 0,
                                   verdict |-> "Unable to analyze",
                                   explanation |-> "Analysis failed"]
                         /\ ~noFruitfulness =>
                              out[r].body.fruitfulness.score = d["fruitfulness"].d["score"].n
                         /\ ~noFollowUp =>
                              out[r].body.follow_up_assessment.reason =
                                  d["follow_up_assessment"].d["reason"].s
                         /\ ListsAsGiven(out[r].body, d)

C8_Witness ==
    \E r \in Reqs :
        /\ HasObject(r)
        /\ DOMAIN Data(r).val.d = {"action_items", "open_points"}
        /\ Succeeded(r)
        /\ Len(out[r].body.action_items) = 2
        /\ Len(out[r].body.open_points) = 2
        /\ out[r].body.fruitfulness.verdict = "Unable to analyze"
        /\ out[r].body.follow_up_assessment.reason = "Unable to determine"

\* The rest of the object builds: only the action items are in question.
RestBuilds(data) == OpenPointsOf(data).ok /\ FollowUpOf(data).ok /\ FruitfulnessOf(data).ok

HasTask(v) ==
    /\ v.t = "dict"
    /\ IsStr(v.d, "task")
    /\ "owner" \in DOMAIN v.d => v.d["owner"].t = "str"
    /\ "deadline" \in DOMAIN v.d => v.d["deadline"].t = "str"

\* C9: an action item that has a task but lacks owner and/or deadline is
\* normalized to owner "Unassigned" and deadline "Not specified", with the
\* supplied fields unchanged, and the call succeeds.
C9_MissingOwnerDeadlineDefaulted ==
    \A r \in Reqs :
        (/\ HasObject(r)
         /\ "action_items" \in DOMAIN Data(r).val.d
         /\ Data(r).val.d["action_items"].t = "list"
         /\ \A i \in 1..Len(Data(r).val.d["action_items"].e) :
                HasTask(Data(r).val.d["action_items"].e[i])
         /\ RestBuilds(Data(r).val)) =>
            LET e == Data(r).val.d["action_items"].e IN
            /\ Succeeded(r)
            /\ Len(out[r].body.action_items) = Len(e)
            /\ \A i \in 1..Len(e) :
                   out[r].body.action_items[i] =
                       [task |-> e[i].d["task"].s,
                        owner |-> IF "owner" \in DOMAIN e[i].d
                                  THEN e[i].d["owner"].s ELSE "Unassigned",
                        deadline |-> IF "deadline" \in DOMAIN e[i].d
                                     THEN e[i].d["deadline"].s ELSE "Not specified"]

WellFormedItem(v) ==
    v.t = "dict" /\ IsStr(v.d, "task") /\ IsStr(v.d, "owner") /\ IsStr(v.d, "deadline")
MissingTask(v) == v.t = "dict" /\ "task" \notin DOMAIN v.d

\* C10: an element of action_items that lacks task is dropped without
\* failing the call: when action_items holds well-formed elements and
\* elements without task, analyze succeeds and returns exactly the
\* well-formed elements in their original order.
C10_MalformedItemDropped ==
    \A r \in Reqs :
        (/\ HasObject(r)
         /\ "action_items" \in DOMAIN Data(r).val.d
         /\ Data(r).val.d["action_items"].t = "list"
         /\ \A i \in 1..Len(Data(r).val.d["action_items"].e) :
                \/ WellFormedItem(Data(r).val.d["action_items"].e[i])
                \/ MissingTask(Data(r).val.d["action_items"].e[i])
         /\ \E i \in 1..Len(Data(r).val.d["action_items"].e) :
                MissingTask(Data(r).val.d["action_items"].e[i])
         /\ \E i \in 1..Len(Data(r).val.d["action_items"].e) :
                WellFormedItem(Data(r).val.d["action_items"].e[i])
         /\ RestBuilds(Data(r).val)) =>
            LET kept == SelectSeq(Data(r).val.d["action_items"].e, WellFormedItem) IN
            /\ Succeeded(r)
            /\ out[r].body.action_items = [i \in 1..Len(kept) |-> GivenItem(kept[i])]

\* Everything but the open points builds: only they are in question.
AllButOpenPointsBuild(data) ==
    ActionItemsOf(data).ok /\ FollowUpOf(data).ok /\ FruitfulnessOf(data).ok

HasTopic(v) == v.t = "dict" /\ IsStr(v.d, "topic") /\ IsStr(v.d, "context")

\* C11: every open point of the parsed reply yields an OpenPoint whose
\* blocking is the supplied value when that is a boolean and false when the
\* key is absent or its value is no boolean, and the call does not fail.
C11_BlockingCoerced ==
    \A r \in Reqs :
        (/\ HasObject(r)
         /\ "open_points" \in DOMAIN Data(r).val.d
         /\ Data(r).val.d["open_points"].t = "list"
         /\ \A i \in 1..Len(Data(r).val.d["open_points"].e) :
                HasTopic(Data(r).val.d["open_points"].e[i])
         /\ AllButOpenPointsBuild(Data(r).val)) =>
            LET e == Data(r).val.d["open_points"].e IN
            /\ Succeeded(r)
            /\ Len(out[r].body.open_points) = Len(e)
            /\ \A i \in 1..Len(e) :
                   out[r].body.open_points[i].blocking =
                       IF IsBool(e[i].d, "blocking") THEN e[i].d["blocking"].b ELSE FALSE

\* Everything but the action items builds: only they are in question.
AllButActionItemsBuild(data) ==
    OpenPointsOf(data).ok /\ FollowUpOf(data).ok /\ FruitfulnessOf(data).ok

\* C12: when action_items is absent or its value is no sequence (null, a
\* string, a number, an object) the result's action_items is empty, when
\* open_points is absent the result's open_points is empty, and the call
\* succeeds.
C12_MissingListsEmpty ==
    \A r \in Reqs :
        HasObject(r) =>
            LET d == Data(r).val.d IN
            /\ (/\ "action_items" \in DOMAIN d => d["action_items"].t # "list"
                /\ AllButActionItemsBuild(Data(r).val)) =>
                   Succeeded(r) /\ out[r].body.action_items = <<>>
            /\ (/\ "open_points" \notin DOMAIN d
                /\ AllButOpenPointsBuild(Data(r).val)) =>
                   Succeeded(r) /\ out[r].body.open_points = <<>>

\* The instruction rendered for request r: the one sent to the provider by
\* analyze, the one returned by the prompt-only operation.
Rendered(r) ==
    /\ req[r].svc \in {"gemini", "azure"}
    /\ IF IsAnalyze(r) THEN calls[r] = 1 ELSE Done(r) /\ Succeeded(r)
Instruction(r) == IF IsAnalyze(r) THEN sent[r] ELSE out[r].body.prompt

\* The context fields the request supplies, in the order booked duration,
\* actual duration, attendee count (the Gemini service's request has no
\* booked duration).
Supplied(request) ==
    (IF request.svc = "azure" /\ request.meeting_booked_duration.t = "int"
     THEN <<[label |-> "Meeting booked duration",
             value |-> request.meeting_booked_duration.n]>>
     ELSE <<>>)
    \o (IF request.meeting_duration_minutes.t = "int"
        THEN <<[label |-> IF request.svc = "azure" THEN "Actual meeting duration"
                          ELSE "Meeting duration",
                value |-> request.meeting_duration_minutes.n]>>
        ELSE <<>>)
    \o (IF request.expected_attendees.t = "int"
        THEN <<[label |-> "Expected attendees", value |-> request.expected_attendees.n]>>
        ELSE <<>>)

\* C13: for a non-blank transcript the rendered instruction starts with a
\* "Context:" block exactly when the request supplies at least one of
\* booked duration, actual duration and attendee count, and the block lists
\* exactly the supplied fields, one per line, in that order, before the
\* prompt that embeds the transcript; equal requests render equal
\* instructions.
C13_ContextBlock ==
    \A r \in Reqs :
        Rendered(r) =>
            LET ins == Instruction(r)
                f == Supplied(req[r])
            IN  /\ ins[Len(ins)].transcript = req[r].transcript
                /\ ins[1] = [line |-> "Context:"] <=> f # <<>>
                /\ f # <<>> =>
                     /\ Len(ins) = Len(f) + 3
                     /\ ins[Len(ins) - 1] = [line |-> ""]
                     /\ \A i \in 1..Len(f) :
                            /\ ins[i + 1].label = f[i].label
                            /\ ins[i + 1].value = f[i].value
                /\ \A q \in Reqs :
                       Rendered(q) /\ req[q] = req[r] => Instruction(q) = ins

\* What the service of the request makes of a provider answer.
AnalyzeFinish(request, response) ==
    IF request.svc = "gemini" THEN GeminiAnalyzeFinish(request, response)
    ELSE AzureAnalyzeFinish(request, response)

\* text[i] is the first "{" of the text; text[j] is its last "}".
FirstOpen(text, i) == text[i].lex = "{" /\ \A k \in 1..(i - 1) : text[k].lex # "{"
LastClose(text, j) == text[j].lex = "}" /\ \A k \in (j + 1)..Len(text) : text[k].lex # "}"
FirstToLast(text, i, j) == i < j /\ FirstOpen(text, i) /\ LastClose(text, j)

\* C14: when the reply text is not valid JSON but the substring from its
\* first "{" to its last "}" is, analyze ends as it would had the provider
\* answered with that substring alone: the text before and after it is ignored.
C14_FirstToLastBrace ==
    \A r \in Reqs :
        (/\ Done(r)
         /\ IsAnalyze(r)
         /\ calls[r] = 1
         /\ backend[r].kind = "text"
         /\ ~json_loads(backend[r].text).ok) =>
            \A i \in 1..Len(backend[r].text) :
                FirstOpen(backend[r].text, i) =>
                    \A j \in (i + 1)..Len(backend[r].text) :
                        (/\ LastClose(backend[r].text, j)
                         /\ json_loads(SubSeq(backend[r].text, i, j)).ok) =>
                            out[r] = AnalyzeFinish(req[r], Text(SubSeq(backend[r].text, i, j)))

\* A reply with text on both sides of a nested object was analysed.
C14_Witness ==
    \E r \in Reqs :
        /\ Done(r)
        /\ IsAnalyze(r)
        /\ calls[r] = 1
        /\ backend[r].kind = "text"
        /\ ~json_loads(backend[r].text).ok
        /\ \E i, j \in 1..Len(backend[r].text) :
               /\ FirstToLast(backend[r].text, i, j)
               /\ i > 1
               /\ j < Len(backend[r].text)
               /\ json_loads(SubSeq(backend[r].text, i, j)).ok
        /\ Succeeded(r)
        /\ Len(out[r].body.action_items) = 2

=============================================================================
